---- MODULE Spec2Model ----
(***************************************************************************)
(* A model of flight-simulator.py: the Aircraft flight dynamics            *)
(* (Aircraft.update) and the input handler                                 *)
(* (FlightSimulator.handle_input), called in turn by the main loop, and    *)
(* the camera computation of FlightSimulator.render.                       *)
(*                                                                         *)
(* The program computes in floating point.  The model computes in fixed    *)
(* point, every quantity an integer count of a unit:                       *)
(*   angles (pitch, roll, heading)      1/100000 degree                    *)
(*   position (x, y, z)                 1/10000 metre                      *)
(*   airspeed, vertical_speed           1/1000000 metre per second         *)
(*   rpm                                1/1000 revolution per minute       *)
(*   fuel                               1/2000000 percent                  *)
(*   throttle, elevator, aileron, rudder  1/100                            *)
(*   dt                                 1/1000 second                      *)
(*   np.random.random()                 1/1000                             *)
(* A product that is not a whole number of units is rounded down.          *)
(***************************************************************************)
EXTENDS Integers, Sequences, FiniteSets, TLC

VARIABLES
    aircraft,   \* FlightSimulator.aircraft: the record of the Aircraft's fields
    paused,     \* FlightSimulator.paused
    running,    \* FlightSimulator.running
    pc,         \* the main loop's position in the frame: "input" or "update"
    frames,     \* the number of handle_input calls so far
    ticks,      \* the number of Aircraft.update calls so far
    last,       \* the last call: its name and its arguments
    prev,       \* the aircraft record as it was when the last call began
    eye         \* render's eye_x, eye_y, eye_z as the last render computed them

vars == <<aircraft, paused, running, pc, frames, ticks, last, prev, eye>>

----------------------------------------------------------------------------
(* Units of the fixed-point representation. *)

AngleUnit == 100000
PosUnit == 10000
SpeedUnit == 1000000
RpmUnit == 1000
FuelUnit == 2000000
CtlUnit == 100
TimeUnit == 1000
RndUnit == 1000
TrigUnit == 10000

(* Program constants (flight-simulator.py lines 25-42). *)
CESSNA_MAX_SPEED == 140
CESSNA_CRUISE_SPEED == 122
CESSNA_STALL_SPEED == 50
CESSNA_CLIMB_RATE == 700
CESSNA_DESCENT_RATE == -500
CESSNA_ROLL_RATE == 60
CESSNA_PITCH_RATE == 25
CESSNA_YAW_RATE == 20
KIND_ELEVATION == 797
\* FEET_TO_METERS = 0.3048, in 1/10000
FEET_TO_METERS == 3048
\* KNOTS_TO_MPS = 0.51444, in 1/100000
KNOTS_TO_MPS == 51444

\* KIND_ELEVATION * FEET_TO_METERS, in position units: 242.9256 m
GroundElevation == KIND_ELEVATION * FEET_TO_METERS

----------------------------------------------------------------------------
(* Arithmetic helpers. *)

\* floor(a * b / c) for c > 0, computed without forming a * b
MulDiv(a, b, c) == (a \div c) * b + ((a % c) * b) \div c

Max(a, b) == IF a >= b THEN a ELSE b
Min(a, b) == IF a <= b THEN a ELSE b
Abs(a) == IF a >= 0 THEN a ELSE -a

\* sin of 0..90 whole degrees, in 1/10000
SinTable ==
    <<    0,   175,   349,   523,   698,   872,  1045,  1219,  1392,  1564,
       1736,  1908,  2079,  2250,  2419,  2588,  2756,  2924,  3090,  3256,
       3420,  3584,  3746,  3907,  4067,  4226,  4384,  4540,  4695,  4848,
       5000,  5150,  5299,  5446,  5592,  5736,  5878,  6018,  6157,  6293,
       6428,  6561,  6691,  6820,  6947,  7071,  7193,  7314,  7431,  7547,
       7660,  7771,  7880,  7986,  8090,  8192,  8290,  8387,  8480,  8572,
       8660,  8746,  8829,  8910,  8988,  9063,  9135,  9205,  9272,  9336,
       9397,  9455,  9511,  9563,  9613,  9659,  9703,  9744,  9781,  9816,
       9848,  9877,  9903,  9925,  9945,  9962,  9976,  9986,  9994,  9998,
      10000>>

\* sin of an angle of the first quadrant (0 <= m <= 90 degrees), the table
\* interpolated linearly between whole degrees
SinQuadrant(m) ==
    LET i == m \div AngleUnit
        f == m % AngleUnit
    IN  IF i >= 90 THEN SinTable[91]
        ELSE SinTable[i + 1] + ((SinTable[i + 2] - SinTable[i + 1]) * f) \div AngleUnit

\* math.sin(math.radians(a)) for any angle a
SinDeg(a) ==
    LET m == a % (360 * AngleUnit)
        h == IF m >= 180 * AngleUnit THEN m - 180 * AngleUnit ELSE m
        q == IF h > 90 * AngleUnit THEN 180 * AngleUnit - h ELSE h
    IN  IF m >= 180 * AngleUnit THEN -SinQuadrant(q) ELSE SinQuadrant(q)

\* math.cos(math.radians(a))
CosDeg(a) == SinDeg(a + 90 * AngleUnit)

----------------------------------------------------------------------------
(* Aircraft.__init__ and FlightSimulator.__init__ *)

\* Aircraft.__init__: the freshly constructed aircraft
NewAircraft ==
    [x |-> 0, y |-> GroundElevation, z |-> 0,
     pitch |-> 0, roll |-> 0, heading |-> 0,
     airspeed |-> 0, vertical_speed |-> 0,
     throttle |-> 0, elevator |-> 0, aileron |-> 0, rudder |-> 0, flaps |-> 0,
     rpm |-> 0, fuel |-> 100 * FuelUnit, gear_down |-> TRUE]

\* FlightSimulator.__init__: a new aircraft placed on the runway
StartAircraft ==
    [NewAircraft EXCEPT !.x = 500 * PosUnit, !.z = 0, !.heading = 230 * AngleUnit]

----------------------------------------------------------------------------
(* Aircraft.update(dt), one definition per block of the method, in the      *)
(* method's order.  Each takes the aircraft record and gives the record     *)
(* after the block.                                                         *)

\* a faulty variant of TargetAirspeed: the target taken from the cruise speed
TargetAirspeed_Cruise(throttle) == (throttle * CESSNA_CRUISE_SPEED * KNOTS_TO_MPS) \div 10

\* target_airspeed = throttle * CESSNA_MAX_SPEED * KNOTS_TO_MPS, in speed units
TargetAirspeed(throttle) == (throttle * CESSNA_MAX_SPEED * KNOTS_TO_MPS) \div 10

\* CESSNA_CRUISE_SPEED * KNOTS_TO_MPS, in speed units
CruiseAirspeed == CESSNA_CRUISE_SPEED * KNOTS_TO_MPS * 10

\* CESSNA_STALL_SPEED * KNOTS_TO_MPS * 0.9, in speed units
StallAirspeed == CESSNA_STALL_SPEED * KNOTS_TO_MPS * 9

\* lines 76-87: velocity components from airspeed, heading and pitch, and
\* the position advanced by velocity * dt
UpdatePosition(a, dt) ==
    LET sh == SinDeg(a.heading)
        ch == CosDeg(a.heading)
        sp == SinDeg(a.pitch)
        cp == CosDeg(a.pitch)
        dx == MulDiv(MulDiv(a.airspeed, sh, TrigUnit), cp, TrigUnit)
        dy == MulDiv(a.airspeed, sp, TrigUnit)
        dz == MulDiv(MulDiv(a.airspeed, ch, TrigUnit), cp, TrigUnit)
        step == (SpeedUnit \div PosUnit) * TimeUnit
    IN  [a EXCEPT !.x = a.x + MulDiv(dx, dt, step),
                  !.y = a.y + MulDiv(dy, dt, step),
                  !.z = a.z + MulDiv(dz, dt, step)]

\* line 90: the ground collision test
BelowGround(a) == a.y < GroundElevation

\* a faulty variant of GroundCollision: y is not clamped
GroundCollision_NoClamp(a) ==
    IF BelowGround(a)
    THEN [a EXCEPT !.vertical_speed = 0, !.pitch = Max(0, a.pitch)]
    ELSE a

\* a faulty variant of GroundCollision: the vertical speed is not zeroed
GroundCollision_KeepVs(a) ==
    IF BelowGround(a)
    THEN [a EXCEPT !.y = GroundElevation, !.pitch = Max(0, a.pitch)]
    ELSE a

\* lines 89-93: ground collision check
GroundCollision(a) ==
    IF BelowGround(a)
    THEN [a EXCEPT !.y = GroundElevation,
                   !.vertical_speed = 0,
                   !.pitch = Max(0, a.pitch)]
    ELSE a

\* lines 95-104: control inputs, banking effect on heading, heading
\* normalized to 0-360
ApplyControls(a, dt) ==
    LET roll == a.roll + a.aileron * CESSNA_ROLL_RATE * dt
        pitch == a.pitch + a.elevator * CESSNA_PITCH_RATE * dt
        turned == a.heading + a.rudder * CESSNA_YAW_RATE * dt
        banked == turned + MulDiv(SinDeg(roll) * 10, dt, 100)
    IN  [a EXCEPT !.roll = roll,
                  !.pitch = pitch,
                  !.heading = banked % (360 * AngleUnit)]

\* lines 106-108: limit pitch and roll
LimitPitchRoll(a) ==
    [a EXCEPT !.pitch = Max(-30 * AngleUnit, Min(30 * AngleUnit, a.pitch)),
              !.roll = Max(-60 * AngleUnit, Min(60 * AngleUnit, a.roll))]

\* lines 110-113: airspeed moves toward the throttle's target
ApplyThrottle(a, dt) ==
    LET airspeed_diff == TargetAirspeed(a.throttle) - a.airspeed
    IN  [a EXCEPT !.airspeed = a.airspeed + MulDiv(airspeed_diff, dt, 2 * TimeUnit)]

\* lines 115-118: rpm moves toward the throttle's target
UpdateRpm(a, dt) ==
    LET target_rpm == 500 * RpmUnit + a.throttle * 2300 * (RpmUnit \div CtlUnit)
        rpm_diff == target_rpm - a.rpm
    IN  [a EXCEPT !.rpm = a.rpm + MulDiv(rpm_diff, 2 * dt, TimeUnit)]

\* lines 121-130: the vertical speed the pitch and the airspeed call for
TargetVs(a) ==
    LET climb == (CESSNA_CLIMB_RATE * FEET_TO_METERS) \div 600
        descent == (CESSNA_DESCENT_RATE * FEET_TO_METERS) \div 600
        per10deg == (10 * AngleUnit) \div 1000
        speed_factor ==
            Min(TrigUnit, ((a.airspeed \div 1000) * TrigUnit) \div (CruiseAirspeed \div 1000))
    IN  IF a.pitch > 0
        THEN MulDiv(MulDiv(a.pitch, climb, per10deg), speed_factor, TrigUnit)
        ELSE IF a.pitch < 0
        THEN MulDiv(Abs(a.pitch), descent, per10deg)
        ELSE 0

\* lines 132-134: vertical speed moves toward its target
UpdateVerticalSpeed(a, dt) ==
    LET vs_diff == TargetVs(a) - a.vertical_speed
    IN  [a EXCEPT !.vertical_speed = a.vertical_speed + MulDiv(vs_diff, dt, 2 * TimeUnit)]

\* a faulty variant of FuelConsumption: the burn does not depend on the throttle
FuelConsumption_NoThrottle(a, dt) ==
    [a EXCEPT !.fuel = Max(0, a.fuel - CtlUnit * dt)]

\* lines 136-138: fuel consumption
FuelConsumption(a, dt) ==
    [a EXCEPT !.fuel = Max(0, a.fuel - a.throttle * dt)]

\* lines 140-142: with the fuel empty, engine power is reduced
FuelEmpty(a, dt) ==
    IF a.fuel <= 0
    THEN [a EXCEPT !.rpm = Max(0, a.rpm - 500 * dt * (RpmUnit \div TimeUnit))]
    ELSE a

\* lines 144-146: natural tendency to level out
LevelOut(a) ==
    IF Abs(a.aileron) < 10
    THEN [a EXCEPT !.roll = MulDiv(a.roll, 95, 100)]
    ELSE a

\* line 149: the stall test
Stalled(a) == a.airspeed < StallAirspeed

\* line 152: the roll is near level
NearLevel(a) == Abs(a.roll) < 5 * AngleUnit

\* a faulty variant of Stall: the roll perturbed on every call
Stall_Unconditional(a, dt, rnd) ==
    [a EXCEPT !.roll = a.roll + (rnd - RndUnit \div 2) * dt]

\* lines 148-154: stall behaviour; rnd is the value of np.random.random()
Stall(a, dt, rnd) ==
    IF Stalled(a)
    THEN LET dropped == [a EXCEPT !.vertical_speed = a.vertical_speed - 9800 * dt]
         IN  IF NearLevel(dropped)
             THEN [dropped EXCEPT !.roll = dropped.roll + (rnd - RndUnit \div 2) * dt]
             ELSE dropped
    ELSE a

\* Aircraft.update(dt) up to the stall block, lines 74-146
UpdateBeforeStall(a, dt) ==
    LET a1 == UpdatePosition(a, dt)
        a2 == GroundCollision(a1)
        a3 == ApplyControls(a2, dt)
        a4 == LimitPitchRoll(a3)
        a5 == ApplyThrottle(a4, dt)
        a6 == UpdateRpm(a5, dt)
        a7 == UpdateVerticalSpeed(a6, dt)
        a8 == FuelConsumption(a7, dt)
        a9 == FuelEmpty(a8, dt)
    IN  LevelOut(a9)

\* Aircraft.update(dt), lines 74-154, np.random.random() returning rnd
update(a, dt, rnd) == Stall(UpdateBeforeStall(a, dt), dt, rnd)

----------------------------------------------------------------------------
(* FlightSimulator.handle_input.  The simulator's state is the record       *)
(* [aircraft, paused, running]; an event is a record [type, key, rel].      *)

Quit == [type |-> "QUIT", key |-> "", rel |-> <<0, 0>>]
KeyDown(k) == [type |-> "KEYDOWN", key |-> k, rel |-> <<0, 0>>]
MouseMotion(dx, dy) == [type |-> "MOUSEMOTION", key |-> "", rel |-> <<dx, dy>>]

\* self.mouse_sensitivity = 0.1, in 1/100
mouse_sensitivity == 10

\* a faulty variant of Reset: a reset in place that forgets the fuel
Reset_KeepFuel(s) ==
    [aircraft |-> [StartAircraft EXCEPT !.fuel = s.aircraft.fuel],
     paused |-> FALSE, running |-> TRUE]

\* lines 509-511: the reset key runs FlightSimulator.__init__ again
Reset(s) == [aircraft |-> StartAircraft, paused |-> FALSE, running |-> TRUE]

\* lines 513-524: mouse motion moves the yoke unless the simulator is paused
MouseYoke(s, rel) ==
    IF ~s.paused
    THEN [s EXCEPT !.aircraft.elevator = ((-rel[2]) * mouse_sensitivity) \div 10,
                   !.aircraft.aileron = (rel[1] * mouse_sensitivity) \div 10]
    ELSE s

\* lines 495-524: one event of the queue
ProcessEvent(s, e) ==
    IF e.type = "QUIT" THEN [s EXCEPT !.running = FALSE]
    ELSE IF e.type = "KEYDOWN" THEN
        IF e.key = "ESCAPE" THEN [s EXCEPT !.running = FALSE]
        ELSE IF e.key = "p" THEN [s EXCEPT !.paused = ~s.paused]
        ELSE IF e.key = "g" THEN [s EXCEPT !.aircraft.gear_down = ~s.aircraft.gear_down]
        ELSE IF e.key = "f" THEN [s EXCEPT !.aircraft.flaps = (s.aircraft.flaps + 1) % 4]
        ELSE IF e.key = "r" THEN Reset(s)
        ELSE s
    ELSE IF e.type = "MOUSEMOTION" THEN MouseYoke(s, e.rel)
    ELSE s

\* line 494: the loop over the event queue
RECURSIVE ProcessEvents(_, _)
ProcessEvents(s, evs) ==
    IF evs = <<>> THEN s
    ELSE ProcessEvents(ProcessEvent(s, Head(evs)), Tail(evs))

\* lines 529-533: throttle control
ThrottleKeys(a, keys) ==
    LET up == IF "EQUALS" \in keys \/ "PLUS" \in keys
              THEN Min(CtlUnit, a.throttle + 1) ELSE a.throttle
    IN  [a EXCEPT !.throttle = IF "MINUS" \in keys THEN Max(0, up - 1) ELSE up]

\* lines 535-541: rudder control
RudderKeys(a, keys) ==
    [a EXCEPT !.rudder = IF "z" \in keys THEN -CtlUnit
                         ELSE IF "x" \in keys THEN CtlUnit
                         ELSE 0]

\* lines 543-551: keyboard elevator
ElevatorKeys(a, keys) ==
    [a EXCEPT !.elevator = IF "UP" \in keys THEN CtlUnit
                           ELSE IF "DOWN" \in keys THEN -CtlUnit
                           ELSE IF Abs(a.elevator) < 10 THEN 0
                           ELSE a.elevator]

\* lines 553-560: keyboard aileron
AileronKeys(a, keys) ==
    [a EXCEPT !.aileron = IF "LEFT" \in keys THEN -CtlUnit
                          ELSE IF "RIGHT" \in keys THEN CtlUnit
                          ELSE IF Abs(a.aileron) < 10 THEN 0
                          ELSE a.aileron]

\* lines 526-560: continuous key inputs
ContinuousKeys(a, keys) ==
    AileronKeys(ElevatorKeys(RudderKeys(ThrottleKeys(a, keys), keys), keys), keys)

\* FlightSimulator.handle_input, lines 493-560: the queued events, then the
\* keys held down
handle_input(s, evs, keys) ==
    LET s1 == ProcessEvents(s, evs)
    IN  [s1 EXCEPT !.aircraft = ContinuousKeys(s1.aircraft, keys)]

----------------------------------------------------------------------------
(* The camera computation of FlightSimulator.render, lines 571-611.  A      *)
(* matrix is a tuple of three rows, its entries in 1/10000.                 *)

\* FlightSimulator.eye_offset = (0, 0.1, -0.3), in position units
eye_offset == <<0, PosUnit \div 10, -((3 * PosUnit) \div 10)>>

\* a faulty variant of R_heading: the sine and the cosine exchanged
R_heading_Swapped(heading) ==
    LET c_h == SinDeg(heading)
        s_h == CosDeg(heading)
    IN  << <<c_h, 0, -s_h>>,
           <<0, TrigUnit, 0>>,
           <<s_h, 0, c_h>> >>

\* the rotation about the y axis by the heading
R_heading(heading) ==
    LET c_h == CosDeg(heading)
        s_h == SinDeg(heading)
    IN  << <<c_h, 0, -s_h>>,
           <<0, TrigUnit, 0>>,
           <<s_h, 0, c_h>> >>

\* the rotation about the x axis by the pitch
R_pitch(pitch) ==
    LET c_p == CosDeg(pitch)
        s_p == SinDeg(pitch)
    IN  << <<TrigUnit, 0, 0>>,
           <<0, c_p, s_p>>,
           <<0, -s_p, c_p>> >>

\* the rotation about the z axis by the roll
R_roll(roll) ==
    LET c_r == CosDeg(roll)
        s_r == SinDeg(roll)
    IN  << <<c_r, s_r, 0>>,
           <<-s_r, c_r, 0>>,
           <<0, 0, TrigUnit>> >>

\* A @ B for two 3x3 matrices
MatMul(A, B) ==
    [i \in 1..3 |-> [j \in 1..3 |->
        (A[i][1] * B[1][j] + A[i][2] * B[2][j] + A[i][3] * B[3][j]) \div TrigUnit]]

\* R @ v for a 3x3 matrix and a vector of position units
MatVec(R, v) ==
    [i \in 1..3 |-> (R[i][1] * v[1] + R[i][2] * v[2] + R[i][3] * v[3]) \div TrigUnit]

\* R = R_roll @ R_pitch @ R_heading
Rotation(a) == MatMul(MatMul(R_roll(a.roll), R_pitch(a.pitch)), R_heading(a.heading))

\* the eye position: the aircraft's position plus the rotated eye offset
CameraEye(a) ==
    LET eye_pos == MatVec(Rotation(a), eye_offset)
    IN  <<a.x + eye_pos[1], a.y + eye_pos[2], a.z + eye_pos[3]>>

----------------------------------------------------------------------------
(* Bounds and inputs of the model. *)

\* handle_input calls in a run of Spec, SpecLargeDt and SpecAnyDt
MaxFrames == 2
\* update calls in a run of SpecLag
MaxLagTicks == 200
\* update calls in a run of SpecBurn, and those of them made before the
\* throttle is first opened
MaxBurnTicks == 20120
MaxIdleTicks == 2
\* the number of update calls of the turn on the runway
MaxTurnTicks == 66

\* frame times dt, in milliseconds: a 60 FPS frame and a slow frame
DtSet == {16, 100}
\* frame times of a stalled main loop
LargeDtSet == {6000, 13000}
\* frame times that are not positive
NonPositiveDtSet == {0, -100}
\* values of np.random.random(), in 1/1000: the ends of [0, 1)
RndSet == {0, 999}
\* the value of np.random.random() that leaves the roll alone
RndMid == RndUnit \div 2

\* the event queues pygame.event.get() returns
EventQueues ==
    { <<>>,
      <<KeyDown("p")>>,
      <<KeyDown("g"), KeyDown("f"), KeyDown("f")>>,
      <<KeyDown("r")>>,
      <<KeyDown("r"), MouseMotion(20, -30)>>,
      <<MouseMotion(150, -120)>>,
      <<MouseMotion(5, -5), KeyDown("ESCAPE")>>,
      <<Quit>> }

\* the sets of keys pygame.key.get_pressed() reports held
KeySets ==
    { {},
      {"EQUALS", "DOWN", "LEFT"},
      {"MINUS", "UP", "x"},
      {"PLUS", "z", "RIGHT"} }

----------------------------------------------------------------------------
(* The state machine: the main loop calls handle_input and then, unless    *)
(* the simulator is paused, Aircraft.update with the frame's dt.            *)

Sim == [aircraft |-> aircraft, paused |-> paused, running |-> running]

Init ==
    /\ aircraft = StartAircraft
    /\ paused = FALSE
    /\ running = TRUE
    /\ pc = "input"
    /\ frames = 0
    /\ ticks = 0
    /\ last = [op |-> "init", events |-> <<>>, keys |-> {}, dt |-> 0]
    /\ prev = StartAircraft
    /\ eye = <<0, 0, 0>>

\* one call of handle_input with the event queue evs and the held keys
DoInput(evs, keys) ==
    /\ pc = "input"
    /\ running
    /\ LET s == handle_input(Sim, evs, keys)
       IN  /\ aircraft' = s.aircraft
           /\ paused' = s.paused
           /\ running' = s.running
    /\ pc' = "update"
    /\ frames' = frames + 1
    /\ last' = [op |-> "handle_input", events |-> evs, keys |-> keys, dt |-> last.dt]
    /\ prev' = aircraft
    /\ UNCHANGED <<ticks, eye>>

\* the main loop calls update only while the simulator is not paused
TickEnabled == pc = "update" /\ ~paused

\* one call of aircraft.update(dt), np.random.random() returning rnd
DoUpdate(dt, rnd) ==
    /\ TickEnabled
    /\ aircraft' = update(aircraft, dt, rnd)
    /\ pc' = "input"
    /\ ticks' = ticks + 1
    /\ last' = [op |-> "update", events |-> <<>>, keys |-> {}, dt |-> dt]
    /\ prev' = aircraft
    /\ UNCHANGED <<paused, running, frames, eye>>

\* a frame of the paused simulator: update is not called
SkipUpdate ==
    /\ pc = "update"
    /\ paused
    /\ pc' = "input"
    /\ last' = [op |-> "skip", events |-> <<>>, keys |-> {}, dt |-> last.dt]
    /\ prev' = aircraft
    /\ UNCHANGED <<aircraft, paused, running, frames, ticks, eye>>

\* one call of render, between the end of a frame's update and the next
\* frame's handle_input: it reads the aircraft and computes the eye position
DoRender ==
    /\ pc = "input"
    /\ running
    /\ eye' = CameraEye(aircraft)
    /\ last' = [op |-> "render", events |-> <<>>, keys |-> {}, dt |-> last.dt]
    /\ prev' = aircraft
    /\ UNCHANGED <<aircraft, paused, running, pc, frames, ticks>>

HandleInput ==
    /\ frames < MaxFrames
    /\ \E evs \in EventQueues, keys \in KeySets : DoInput(evs, keys)

Update == \E dt \in DtSet, rnd \in RndSet : DoUpdate(dt, rnd)

Next == HandleInput \/ Update \/ SkipUpdate

Spec == Init /\ [][Next]_vars

\* the same, the frame times including those of a stalled main loop
UpdateLargeDt == \E dt \in DtSet \cup LargeDtSet, rnd \in RndSet : DoUpdate(dt, rnd)

NextLargeDt == HandleInput \/ UpdateLargeDt \/ SkipUpdate

SpecLargeDt == Init /\ [][NextLargeDt]_vars

\* the same, the frame times including zero and a negative one
UpdateAnyDt == \E dt \in DtSet \cup NonPositiveDtSet, rnd \in RndSet : DoUpdate(dt, rnd)

NextAnyDt == HandleInput \/ UpdateAnyDt \/ SkipUpdate

SpecAnyDt == Init /\ [][NextAnyDt]_vars

----------------------------------------------------------------------------
(* Claims. *)

\* the last call was update and its position step brought y below the ground
\* elevation, so that the ground collision branch ran
Collided ==
    /\ last.op = "update"
    /\ BelowGround(UpdatePosition(prev, last.dt))

\* the startup configuration, field by field
StartupConfiguration ==
    [x |-> 500 * PosUnit, y |-> GroundElevation, z |-> 0,
     pitch |-> 0, roll |-> 0, heading |-> 230 * AngleUnit,
     airspeed |-> 0, vertical_speed |-> 0,
     throttle |-> 0, elevator |-> 0, aileron |-> 0, rudder |-> 0, flaps |-> 0,
     rpm |-> 0, fuel |-> 100 * FuelUnit, gear_down |-> TRUE]

\* the events of the queue evs that follow its last reset key
RECURSIVE AfterReset(_)
AfterReset(evs) ==
    IF evs = <<>> THEN <<>>
    ELSE IF KeyDown("r") \in {evs[i] : i \in 2..Len(evs)} THEN AfterReset(Tail(evs))
    ELSE Tail(evs)

\* the last call was handle_input and its queue held the reset key
ResetPressed ==
    /\ last.op = "handle_input"
    /\ KeyDown("r") \in {last.events[i] : i \in 1..Len(last.events)}

\* C1: after each update call with dt > 0, pitch is in [-30, 30], roll is in
\* [-60, 60] and heading is in [0, 360), the ticks where self-leveling and
\* the stall's random roll run after the clamp included.
C1_AttitudeInRange ==
    (last.op = "update" /\ last.dt > 0) =>
        /\ -30 * AngleUnit <= aircraft.pitch /\ aircraft.pitch <= 30 * AngleUnit
        /\ -60 * AngleUnit <= aircraft.roll /\ aircraft.roll <= 60 * AngleUnit
        /\ 0 <= aircraft.heading /\ aircraft.heading < 360 * AngleUnit

\* C2: the altitude y is never below the ground elevation, and an update
\* whose position step brings y below it leaves y equal to it exactly.
C2_GroundFloor ==
    /\ aircraft.y >= GroundElevation
    /\ Collided => aircraft.y = GroundElevation

C2_Witness ==
    /\ Collided
    /\ UpdatePosition(prev, last.dt).y < prev.y
    /\ aircraft.y = GroundElevation

\* C3 as claimed: after an update call that triggers the ground collision,
\* vertical_speed is 0.
C3_VerticalSpeedZero == Collided => aircraft.vertical_speed = 0

\* C3 as amended: an update call that triggers the ground collision resets
\* vertical_speed to 0 at that step, so that after the call it is the one
\* step from 0 toward the target that the pitch and airspeed call for
\* (target_vs * dt * 0.5), less 9.8 * dt when the aircraft is stalled,
\* whatever vertical_speed was before the call.
C3_VerticalSpeedFromZero ==
    Collided =>
        aircraft.vertical_speed =
            MulDiv(TargetVs(aircraft), last.dt, 2 * TimeUnit)
            - (IF Stalled(aircraft) THEN 9800 * last.dt ELSE 0)

C3_Witness ==
    /\ Collided
    /\ prev.vertical_speed # 0
    /\ aircraft.vertical_speed # 0

\* C4: after each update call with dt > 0 of any size and throttle in
\* [0, 1], airspeed is >= 0.
C4_AirspeedNonNegative ==
    (last.op = "update" /\ last.dt > 0) => aircraft.airspeed >= 0

\* C5: with fuel = 0 and throttle = 1 sustained, rpm is non-increasing from
\* tick to tick and reaches 0.  Each update maps rpm to a function of rpm
\* alone there, so this is: every such update of a positive rpm lowers it.
C5_RpmDecays ==
    (last.op = "update" /\ prev.fuel = 0 /\ prev.throttle = CtlUnit /\ prev.rpm > 0) =>
        aircraft.rpm < prev.rpm

\* C6: fuel stays in [0, 100] and no update call with dt > 0 raises it: at
\* throttle 0 update leaves it unchanged, at throttle 1 update lowers it
\* while it is above 0, and at 0 it stays; only a reset raises it.
C6_FuelMonotone ==
    /\ 0 <= aircraft.fuel /\ aircraft.fuel <= 100 * FuelUnit
    /\ last.op = "update" =>
        /\ aircraft.fuel <= prev.fuel
        /\ prev.throttle = 0 => aircraft.fuel = prev.fuel
        /\ (prev.throttle = CtlUnit /\ prev.fuel > 0) => aircraft.fuel < prev.fuel
        /\ prev.fuel = 0 => aircraft.fuel = 0
    /\ aircraft.fuel > prev.fuel => ResetPressed
    /\ (last.op = "handle_input" /\ ~ResetPressed) => aircraft.fuel = prev.fuel

C6_Witness ==
    /\ last.op = "update"
    /\ prev.throttle = CtlUnit
    /\ prev.fuel = 0
    /\ aircraft.fuel = 0

\* k * 140 knots in metres per second, k the throttle
C7_Target == (aircraft.throttle * 140 * 51444) \div 10

C8_ControlsInRange ==
    last.op = "handle_input" =>
        /\ -CtlUnit <= aircraft.elevator /\ aircraft.elevator <= CtlUnit
        /\ -CtlUnit <= aircraft.aileron /\ aircraft.aileron <= CtlUnit
        /\ -CtlUnit <= aircraft.rudder /\ aircraft.rudder <= CtlUnit
        /\ 0 <= aircraft.throttle /\ aircraft.throttle <= CtlUnit
        /\ aircraft.flaps \in 0..3

\* C9: an update call with dt = 0 or dt < 0 changes no field of the
\* aircraft.
C9_NonPositiveDtNoOp ==
    (last.op = "update" /\ last.dt <= 0) => aircraft = prev

\* C10: the reset command leaves the aircraft in its startup configuration,
\* no field carried over: after a handle_input call that processed a reset the
\* aircraft is what the rest of that call's input (the events behind the
\* reset, the held keys) makes of the startup configuration, and it is the
\* startup configuration itself when nothing follows the reset.
C10_ResetToStartup ==
    ResetPressed =>
        /\ aircraft = handle_input([aircraft |-> StartupConfiguration,
                                    paused |-> FALSE, running |-> TRUE],
                                   AfterReset(last.events), last.keys).aircraft
        /\ (AfterReset(last.events) = <<>> /\ last.keys = {}) =>
               aircraft = StartupConfiguration

C10_Witness ==
    /\ ResetPressed
    /\ AfterReset(last.events) = <<>> /\ last.keys = {}
    /\ ticks > 0
    /\ prev.fuel < 100 * FuelUnit /\ prev.roll # 0 /\ prev.rpm > 0 /\ prev.throttle > 0
    /\ aircraft = StartupConfiguration

\* the camera's inputs: the aircraft's position and attitude, the fields
\* the camera does not read set to those of a new aircraft
CameraInputs(a) ==
    [NewAircraft EXCEPT !.x = a.x, !.y = a.y, !.z = a.z,
                        !.heading = a.heading, !.pitch = a.pitch, !.roll = a.roll]

\* C11: the camera computation changes no field of the aircraft, its eye
\* position depends on the position, the heading, the pitch and the roll
\* alone, and at heading = 0, pitch = 0, roll = 0 the eye position is the
\* aircraft's position plus (0, 0.1, -0.3) exactly.
C11_CameraPure ==
    last.op = "render" =>
        /\ aircraft = prev
        /\ eye = CameraEye(CameraInputs(prev))
        /\ (prev.heading = 0 /\ prev.pitch = 0 /\ prev.roll = 0) =>
               eye = <<prev.x, prev.y + PosUnit \div 10, prev.z - (3 * PosUnit) \div 10>>

C11_Witness ==
    /\ last.op = "render"
    /\ ticks > 0
    /\ aircraft.heading = 0 /\ aircraft.pitch = 0 /\ aircraft.roll = 0
    /\ aircraft.rudder # 0
    /\ eye = <<aircraft.x, aircraft.y + PosUnit \div 10, aircraft.z - (3 * PosUnit) \div 10>>

\* the stall block does not perturb the roll: the airspeed after the lag
\* step is at least 0.9 * 50 knots, or the roll after the levelling is at
\* least 5 degrees off level
C12_NotPerturbed(b) ==
    \/ b.airspeed >= 9 * 50 * 51444
    \/ b.roll >= 5 * AngleUnit
    \/ b.roll <= -5 * AngleUnit

\* C12: an update call from the same state with the same dt, whatever the
\* random number, gives the state this call gave when the stall block does
\* not perturb the roll, and otherwise a state that differs from it in the
\* roll alone, by less than 10 * dt degrees.
C12_Deterministic ==
    last.op = "update" =>
        \A rnd \in RndSet \cup {RndMid} :
            LET other == update(prev, last.dt, rnd)
            IN  IF C12_NotPerturbed(UpdateBeforeStall(prev, last.dt))
                THEN other = aircraft
                ELSE /\ [other EXCEPT !.roll = aircraft.roll] = aircraft
                     /\ other.roll - aircraft.roll < 10 * last.dt * (AngleUnit \div TimeUnit)
                     /\ aircraft.roll - other.roll < 10 * last.dt * (AngleUnit \div TimeUnit)

C12_Witness ==
    /\ last.op = "update"
    /\ last.dt = 100
    /\ ~C12_NotPerturbed(UpdateBeforeStall(prev, last.dt))
    /\ prev.airspeed > 0
    /\ update(prev, last.dt, 0).roll < aircraft.roll
    /\ update(prev, last.dt, 999).roll > aircraft.roll
    /\ [update(prev, last.dt, 0) EXCEPT !.roll = aircraft.roll] = aircraft

\* the last call was handle_input and the simulator was paused when it
\* began: its queue held no reset key, and the pause key as often as it
\* takes to get from paused to the present setting
C13_PausedWhenCalled ==
    /\ last.op = "handle_input"
    /\ ~ResetPressed
    /\ LET toggles == {i \in 1..Len(last.events) : last.events[i] = KeyDown("p")}
       IN  paused = (Cardinality(toggles) % 2 = 0)

\* C13: a handle_input call made while the simulator is paused changes
\* neither the throttle nor the elevator, the aileron or the rudder.
C13_ControlsWithheld ==
    C13_PausedWhenCalled =>
        /\ aircraft.throttle = prev.throttle
        /\ aircraft.elevator = prev.elevator
        /\ aircraft.aileron = prev.aileron
        /\ aircraft.rudder = prev.rudder

----------------------------------------------------------------------------
(* Scripted flights. *)

\* frame times of the two flights below
LagDtSet == {16, 50, 100}
BurnDtSet == {100}
\* throttle settings the first flight is flown at, in 1/100
LagThrottles == {0, 20, 50, 80, 100}

(* A flight at a constant throttle from standstill: the pilot pauses the   *)
(* simulator, holds the throttle key until the throttle is at one of        *)
(* LagThrottles, resumes, and flies hands off at a steady frame time.       *)
LagInput ==
    \/ /\ frames = 0
       /\ DoInput(<<KeyDown("p")>>, {})
    \/ /\ paused
       /\ aircraft.throttle < CtlUnit
       /\ DoInput(<<>>, {"EQUALS"})
    \/ /\ paused
       /\ aircraft.throttle \in LagThrottles
       /\ DoInput(<<KeyDown("p")>>, {})
    \/ /\ frames > 0
       /\ ~paused
       /\ ticks < MaxLagTicks
       /\ DoInput(<<>>, {})

LagUpdate ==
    /\ ticks < MaxLagTicks
    /\ \E dt \in LagDtSet :
        /\ ticks = 0 \/ dt = last.dt
        /\ DoUpdate(dt, RndMid)

NextLag == LagInput \/ LagUpdate \/ SkipUpdate

SpecLag == Init /\ [][NextLag]_vars

(* A flight until the tank is empty: the pilot idles for up to             *)
(* MaxIdleTicks frames, then holds the throttle key down for good, and      *)
(* resets the simulator at the end.                                         *)
BurnInput ==
    \/ /\ aircraft.throttle = 0
       /\ ticks < MaxIdleTicks
       /\ DoInput(<<>>, {})
    \/ /\ ticks < MaxBurnTicks
       /\ DoInput(<<>>, {"EQUALS"})
    \/ /\ ticks >= MaxBurnTicks
       /\ ~ResetPressed
       /\ DoInput(<<KeyDown("r")>>, {"EQUALS"})

BurnUpdate ==
    /\ ticks < MaxBurnTicks
    /\ \E dt \in BurnDtSet : DoUpdate(dt, RndMid)

NextBurn == BurnInput \/ BurnUpdate

SpecBurn == Init /\ [][NextBurn]_vars

\* frame time of the turn below
TurnDtSet == {100}
\* keys held during the turn
TurnKeySets == {{"x"}, {"x", "UP"}}

(* A turn on the runway, the throttle closed: the pilot holds the rudder   *)
(* key, at times the nose-up key with it, for up to                         *)
(* MaxTurnTicks frames, and every frame may be rendered.                    *)
TurnInput ==
    /\ ticks < MaxTurnTicks
    /\ \E keys \in TurnKeySets : DoInput(<<>>, keys)

TurnUpdate == \E dt \in TurnDtSet : DoUpdate(dt, RndMid)

Render == DoRender

NextTurn == TurnInput \/ TurnUpdate \/ Render

SpecTurn == Init /\ [][NextTurn]_vars

====
